---- MODULE Spec2Model ----
(***************************************************************************)
(* Model of viewport-cli: the local screenshot server                      *)
(* (screenshot-server/index.js) and the Go supervisor that spawns, probes  *)
(* and stops it (cli/pkg/server/manager.go), with the Node launcher        *)
(* (lib/launcher.js, kept in the same source file) and the manager of the  *)
(* cloudflared tunnel (cli/pkg/tunnel/tunnel.go).                          *)
(*                                                                         *)
(* The server runs on one JavaScript event loop: an action of the capture  *)
(* part is one event-loop task, i.e. the code from one resumption up to    *)
(* the next await of a browser call or timer, together with the promise    *)
(* reactions (microtasks) it triggers.                                     *)
(***************************************************************************)
EXTENDS Integers, Sequences, FiniteSets, TLC

VARIABLES
    srv,              \* server process of index.js: "boot", "listening", "exited"
    browser,          \* the module-level browser handle: "null" or "ready"
    concurrentPages,  \* the module-level slot counter
    reqs,             \* HTTP requests, by request id
    caps,             \* captureScreenshot calls, by <<request id, index>>
    acquired,         \* history: how often each capture incremented the counter
    released,         \* history: how often each capture decremented the counter
    launches,         \* history: how often puppeteer.launch was called
    clock,            \* the last reading of Date.now() (0: not read yet)
    sup,              \* supervisors (Go Manager values, the Node launcher), by name
    procs,            \* service processes the supervisors spawned, by process id
    foreign,          \* what else answers on the port: "none", "ok", "degraded", "other"
    quota,            \* the calls each supervisor's client makes in this run
    run,              \* one run of the scan command (runScan of scan.go)
    ports,            \* the launcher's view of the ports: what each one holds
    chk,              \* one call of the launcher's isServerRunning
    find              \* one call of the launcher's findAvailablePort

capVars == <<srv, browser, concurrentPages, reqs, caps, acquired, released,
            launches, clock>>

supVars == <<sup, procs, foreign, quota>>

cliVars == <<run, ports, chk, find>>

vars == <<srv, browser, concurrentPages, reqs, caps, acquired, released,
          launches, clock, sup, procs, foreign, quota, run, ports, chk, find>>

-----------------------------------------------------------------------------
(* Bounds of the model *)

MaxRequests == 2
MaxDevices == 2
MaxCaptures == 4
MaxPolls == 2
MaxCalls == 2
MaxStops == 2
MaxLines == 2
MaxPorts == 3

(* Program constants *)

MAX_CONCURRENT_PAGES == 3

\* maxAttempts of Manager.Start, and the attempts ensureServerRunning gives
\* waitForServer.
maxAttempts == 30

LauncherMaxAttempts == 60

-----------------------------------------------------------------------------
(* Viewport registry *)

DEVICE_VIEWPORTS ==
    [mobile  |-> [width |-> 375,  height |-> 667,  name |-> "MOBILE"],
     tablet  |-> [width |-> 768,  height |-> 1024, name |-> "TABLET"],
     desktop |-> [width |-> 1920, height |-> 1080, name |-> "DESKTOP"]]

KnownDevice(d) == d \in DOMAIN DEVICE_VIEWPORTS

\* Device names a request may carry: registry names, and "Mobile", a name that
\* the case-sensitive registry lookup does not find.
InputDevices == {"mobile", "Mobile"}

\* String.prototype.toLowerCase on the names above.
ToLowerCase(d) == IF d = "Mobile" THEN "mobile" ELSE d

\* viewport?.width || 0 and viewport?.height || 0
Dimensions(d) ==
    IF KnownDevice(d)
    THEN [width |-> DEVICE_VIEWPORTS[d].width, height |-> DEVICE_VIEWPORTS[d].height]
    ELSE [width |-> 0, height |-> 0]

DefaultDevices == <<"mobile", "tablet", "desktop">>

-----------------------------------------------------------------------------
(* Requests and captures *)

Requests == 1 .. MaxRequests

\* The default viewport list of /scan has three entries, whatever MaxDevices is.
MaxFanOut == IF MaxDevices < Len(DefaultDevices) THEN Len(DefaultDevices) ELSE MaxDevices

CapIds == Requests \X (1 .. MaxFanOut)

DeviceLists == UNION {[1 .. n -> InputDevices] : n \in 0 .. MaxDevices}

\* polls: history, the resumptions of the slot loop that found no free slot.
NoCapture ==
    [pc |-> "none", device |-> "", page |-> "none", img |-> "", err |-> "", polls |-> 0]

NoScanId == <<>>

NoRequest ==
    [state |-> "none", kind |-> "", devices |-> <<>>, http |-> 0, status |-> "",
     results |-> <<>>, error |-> "", scanId |-> NoScanId]

\* A capture holds a slot from the increment to the decrement of the counter.
InFlightPcs == {"newPage", "setViewport", "goto", "screenshot", "close"}

HoldsSlot(c) == caps[c].pc \in InFlightPcs

Settled(cap) == cap.pc \in {"resolved", "rejected"}

Started == Cardinality({c \in CapIds : caps[c].pc # "none"})

-----------------------------------------------------------------------------
(* captureScreenshot *)

\* Mutant: the loop lets a caller through while the counter is at the cap.
SlotFreeOffByOne(cp) == cp <= MAX_CONCURRENT_PAGES

\* The negation of the while condition of the slot loop.
SlotFree(cp) == cp < MAX_CONCURRENT_PAGES

\* concurrentPages++ and concurrentPages--
AcquireSlot(cp) == cp + 1

\* Mutant: the decrement is forgotten.
ReleaseSlotForgotten(cp) == cp

ReleaseSlot(cp) == cp - 1

\* initBrowser: the handle is returned if there is one; else puppeteer.launch
\* is called. The number of launches this makes.
InitBrowserLaunches(b) == IF b = "null" THEN 1 ELSE 0

\* The message of the error puppeteer.launch throws.
LaunchError == "Failed to launch the browser process"

\* GET /: the handler answers 200 whenever it runs; a process that does not
\* listen gives no answer.
HealthCheck(s) == IF s = "listening" THEN "200" ELSE "refused"

\* Mutant: each capture launches a browser of its own.
CaptureLaunchesOwn(b) == InitBrowserLaunches("null")

\* captureScreenshot works on the module-level handle (browser.newPage()):
\* it calls neither initBrowser nor puppeteer.launch.
CaptureLaunches(b) == 0

\* The two checks at the top of the try block; "" when both pass.
Validate(d) ==
    IF browser = "null" THEN "Browser not initialized"
    ELSE IF ~KnownDevice(d) THEN "Unknown device"
    ELSE ""

\* captureScreenshot from its call (or from a resumption of the slot loop) up
\* to its first await, with the counter at cp. The slot loop comes first: a
\* call that finds no free slot sleeps before anything is validated. A call
\* that fails validation increments and decrements the counter in one go.
EnterCapture(cp, d) ==
    IF ~SlotFree(cp)
    THEN [cap |-> [NoCapture EXCEPT !.pc = "waiting", !.device = d],
          cp |-> cp, acq |-> 0, rel |-> 0]
    ELSE IF Validate(d) # ""
    THEN [cap |-> [NoCapture EXCEPT !.pc = "rejected", !.device = d, !.err = Validate(d)],
          cp |-> ReleaseSlot(AcquireSlot(cp)), acq |-> 1, rel |-> 1]
    ELSE [cap |-> [NoCapture EXCEPT !.pc = "newPage", !.device = d],
          cp |-> AcquireSlot(cp), acq |-> 1, rel |-> 0]

\* devices.map(async device => ... captureScreenshot(targetUrl, device) ...):
\* the calls are made one after the other, each running up to its first await.
RECURSIVE FanOut(_, _)
FanOut(devs, cp) ==
    IF devs = <<>> THEN [entered |-> <<>>, cp |-> cp]
    ELSE LET e == EnterCapture(cp, Head(devs))
             rest == FanOut(Tail(devs), e.cp)
         IN [entered |-> <<e>> \o rest.entered, cp |-> rest.cp]

-----------------------------------------------------------------------------
(* Responses *)

\* Mutant: the handler goes on as soon as one capture has settled.
AnySettled(r, devs, cs) == \E i \in 1 .. Len(devs) : Settled(cs[<<r, i>>])

\* Promise.all over the per-device promises of request r (none of which
\* rejects: each callback catches the failure of its capture).
AllSettled(r, devs, cs) == \A i \in 1 .. Len(devs) : Settled(cs[<<r, i>>])

\* The object a /scan callback returns for its device.
ScanEntry(cap) ==
    [device |-> ToLowerCase(cap.device),
     dimensions |-> Dimensions(cap.device),
     image |-> IF cap.pc = "resolved" THEN cap.img ELSE "",
     success |-> cap.pc = "resolved",
     error |-> IF cap.pc = "resolved" THEN "" ELSE cap.err]

\* The object a /screenshots callback returns for its device.
BatchEntry(cap) ==
    [device |-> cap.device,
     dimensions |-> IF cap.pc = "resolved" THEN Dimensions(cap.device)
                    ELSE [width |-> 0, height |-> 0],
     image |-> IF cap.pc = "resolved" THEN cap.img ELSE "",
     success |-> cap.pc = "resolved",
     error |-> IF cap.pc = "resolved" THEN "" ELSE cap.err]

\* results.filter(r => !r.error)
KeepResult(e) == e.error = ""

\* status: 'complete'
ScanStatus(entries) == "complete"

\* Mutant: a failed capture fails the whole request.
ScanResponseAborting(rq, entries) ==
    IF \E i \in 1 .. Len(entries) : ~KeepResult(entries[i])
    THEN [rq EXCEPT !.state = "responded", !.http = 500, !.error = "capture failed"]
    ELSE [rq EXCEPT !.state = "responded", !.http = 200, !.status = ScanStatus(entries),
                    !.results = entries]

ScanResponse(rq, entries) ==
    [rq EXCEPT !.state = "responded", !.http = 200, !.status = ScanStatus(entries),
               !.results = SelectSeq(entries, KeepResult)]

BatchResponse(rq, entries) ==
    [rq EXCEPT !.state = "responded", !.http = 200, !.results = entries]

\* /screenshot: 200 with the capture, or the catch-all 500.
SingleResponse(rq, cap) ==
    IF cap.pc = "resolved"
    THEN [rq EXCEPT !.state = "responded", !.http = 200,
                    !.results = <<BatchEntry(cap)>>]
    ELSE [rq EXCEPT !.state = "responded", !.http = 500, !.error = cap.err]

\* Date.now() after an earlier reading of last: the millisecond clock has
\* not moved since, or it has.
DateNow(last) == IF last = 0 THEN {1} ELSE {last, last + 1}

\* `scan-${Date.now()}`
ScanId(t) == <<"scan-", t>>

\* The continuation of request r's handler once its awaited promise settles,
\* given the captures cs.
Deliver(rq, r, cs) ==
    IF rq.state # "open" \/ ~AllSettled(r, rq.devices, cs) THEN rq
    ELSE LET n == Len(rq.devices) IN
         CASE rq.kind = "scan" ->
                ScanResponse(rq, [i \in 1 .. n |-> ScanEntry(cs[<<r, i>>])])
           [] rq.kind = "screenshots" ->
                BatchResponse(rq, [i \in 1 .. n |-> BatchEntry(cs[<<r, i>>])])
           [] OTHER -> SingleResponse(rq, cs[<<r, 1>>])

DeliverAll(rs, cs) == [r \in Requests |-> Deliver(rs[r], r, cs)]

\* The scans among rs that out answers.
ScansAnswered(rs, out) ==
    {r \in Requests : rs[r].state = "open" /\ out[r].state = "responded" /\ out[r].kind = "scan"}

\* The handlers waiting in rs continue over the captures cs; a /scan response
\* reads the clock for its scanId.
Respond(rs, cs) ==
    LET out == DeliverAll(rs, cs)
        scans == ScansAnswered(rs, out)
    IN \E t \in (IF scans = {} THEN {clock} ELSE DateNow(clock)) :
          /\ reqs' = [r \in Requests |->
                        IF r \in scans THEN [out[r] EXCEPT !.scanId = ScanId(t)] ELSE out[r]]
          /\ clock' = t

-----------------------------------------------------------------------------
(* Supervisors and the processes they spawn, all for one port *)

GoManagers == {"m1", "m2"}

Launcher == "js"

\* The TunnelManager of a scan through a tunnel.
Tunnel == "tm"

Supervisors == GoManagers \cup {Launcher, Tunnel}

\* Every call that spawns gets a process id of its own.
ProcIds == 1 .. (MaxCalls * Cardinality(Supervisors))

\* Manager.cmd / serverProcess: nil, a command whose start failed (no
\* process behind it), or the id of the process spawned.
Nil == 0

Unstarted == -1

\* forced: what the Process.Kill() of a stop met, a process still running
\* ("alive") or one that had exited ("gone"); "" when no stop has killed.
NoProc ==
    [state |-> "none", owner |-> "", probe |-> "", termed |-> FALSE, end |-> "",
     forced |-> "", out |-> "", closed |-> ""]

\* NewManager(port); let serverProcess = null. For the tunnel: dial is the
\* outcome of the dial of NewTunnelManager, late whether the 15 s timer of
\* Start has fired.
NewSupervisor ==
    [pc |-> "idle", cmd |-> Nil, i |-> 0, log |-> <<>>, stops |-> 0, ret |-> "none",
     dial |-> "", late |-> FALSE]

\* No TunnelManager exists before NewTunnelManager has returned one.
NoTunnelManager == [NewSupervisor EXCEPT !.pc = "unmade"]

NobodySupervising ==
    /\ sup = [s \in Supervisors |-> IF s = Tunnel THEN NoTunnelManager ELSE NewSupervisor]
    /\ procs = [p \in ProcIds |-> NoProc]

\* How often the client of each supervisor calls its start and stop.
Quota(calls, stops) == [starts |-> calls, stops |-> stops, kills |-> FALSE]

NoCalls == [s \in Supervisors |-> Quota(0, 0)]

\* One client with its supervisor: runs of MaxCalls starts and MaxStops stops.
Solo(sv) == [s \in Supervisors |-> IF s = sv THEN Quota(MaxCalls, MaxStops) ELSE Quota(0, 0)]

\* Two runs of the scan command at once, each with a Manager of its own:
\* runScan calls Start once, and Stop when it returns. (The second Stop of
\* its failure paths is part of the runs of one client alone.)
Race == [s \in Supervisors |-> IF s \in GoManagers THEN Quota(1, 1) ELSE Quota(0, 0)]

\* A client that calls Start once and then stops the server with Stop and
\* with Kill.
StopAndKill ==
    [s \in Supervisors |-> IF s = "m1" THEN [Quota(1, MaxStops) EXCEPT !.kills = TRUE]
                                        ELSE Quota(0, 0)]

Scenarios == {Solo("m1"), Solo(Launcher), Solo(Tunnel), Race, StopAndKill}

ForeignKinds == {"none", "ok", "degraded", "other"}

\* The status a service that was on the port before answers GET / with.
ForeignStatus(f) ==
    CASE f = "ok" -> "200"
      [] f = "degraded" -> "503"
      [] OTHER -> "404"

Alive(ps) == {p \in ProcIds : ps[p].state \in {"starting", "listening"}}

Listening(ps) == {p \in ProcIds : ps[p].state = "listening"}

\* What one GET / on the port can come to: the status answered by whoever
\* listens there (the health check of index.js always answers 200), no answer
\* within the probe's timeout, or a refused connection when nobody listens.
ProbeOutcomes ==
    IF foreign # "none" THEN {ForeignStatus(foreign), "timeout"}
    ELSE IF Listening(procs) # {} THEN {"200", "timeout"}
    ELSE {"refused"}

AllOutcomes == {"200", "503", "404", "timeout", "refused"}

-----------------------------------------------------------------------------
(* Server start-up *)

ServerBooting ==
    /\ srv = "boot"
    /\ browser = "null"
    /\ concurrentPages = 0
    /\ reqs = [r \in Requests |-> NoRequest]
    /\ caps = [c \in CapIds |-> NoCapture]
    /\ acquired = [c \in CapIds |-> 0]
    /\ released = [c \in CapIds |-> 0]
    /\ launches = 0
    /\ clock = 0

\* Nothing of the command line and of the launcher's helpers is running.
NoRun ==
    [pc |-> "off", noDisplay |-> FALSE, autoStart |-> FALSE, serverManager |-> "nil",
     deferred |-> FALSE, outcome |-> "", cancelled |-> FALSE]

NoPorts == <<>>

NoCheck ==
    [state |-> "off", value |-> FALSE, timer |-> "", net |-> "", status |-> "",
     intime |-> FALSE, port |-> 0]

NoFind ==
    [pc |-> "off", startPort |-> 0, maxAttempts |-> 0, first |-> 0, count |-> 0,
     i |-> 0, isRunning |-> FALSE, result |-> 0]

NoClient ==
    /\ run = NoRun
    /\ ports = NoPorts
    /\ chk = NoCheck
    /\ find = NoFind

InitCapture ==
    /\ ServerBooting
    /\ NobodySupervising
    /\ NoClient
    /\ foreign = "none"
    /\ quota = NoCalls

\* Mutant: the server listens whether the browser was launched or not.
ListensAnyway(launched) == "listening"

\* What start() comes to: server.listen() after initBrowser() returned,
\* process.exit(1) in the catch block if it threw.
StartOutcome(launched) == IF launched THEN "listening" ELSE "exited"

\* start(): initBrowser() then server.listen(); a failed launch ends the process.
StartServer(launched) ==
    /\ srv = "boot"
    /\ launches' = launches + InitBrowserLaunches(browser)
    /\ browser' = IF launched THEN "ready" ELSE browser
    /\ srv' = StartOutcome(launched)
    /\ UNCHANGED <<supVars, cliVars, concurrentPages, reqs, caps, acquired, released, clock>>

-----------------------------------------------------------------------------
(* Request handlers: the 'end' callback of each endpoint *)

\* A field the body does not carry (for a list: anything that is no array).
Absent == "absent"

AbsentList == <<Absent>>

\* The request ids are handed out in order.
NextRequest(r) ==
    /\ srv = "listening"
    /\ reqs[r].state = "none"
    /\ \A q \in Requests : q < r => reqs[q].state # "none"

Reply(r, kind, http, msg) ==
    /\ reqs' = [reqs EXCEPT ![r] =
                  [NoRequest EXCEPT !.state = "responded", !.kind = kind,
                                    !.http = http, !.error = msg]]
    /\ UNCHANGED <<supVars, cliVars, srv, browser, concurrentPages, caps, acquired, released,
                   launches, clock>>

\* The fan-out of request r over devs, and the response if nothing is left
\* to wait for.
Launch(r, kind, devs) ==
    LET f == FanOut(devs, concurrentPages)
        n == Len(devs)
        mine(c) == c[1] = r /\ c[2] <= n
        cs == [c \in CapIds |-> IF mine(c) THEN f.entered[c[2]].cap ELSE caps[c]]
        rs == [reqs EXCEPT ![r] =
                 [NoRequest EXCEPT !.state = "open", !.kind = kind, !.devices = devs]]
    IN /\ Started + n <= MaxCaptures
       /\ caps' = cs
       /\ concurrentPages' = f.cp
       /\ acquired' = [c \in CapIds |-> IF mine(c) THEN f.entered[c[2]].acq ELSE acquired[c]]
       /\ released' = [c \in CapIds |-> IF mine(c) THEN f.entered[c[2]].rel ELSE released[c]]
       /\ launches' = launches + (f.cp - concurrentPages) * CaptureLaunches(browser)
       /\ Respond(rs, cs)
       /\ UNCHANGED <<supVars, cliVars, srv, browser>>

\* A request to a server process that has exited: nobody listens on the
\* port, the connection is refused and no handler runs.
Refused(r) ==
    /\ srv = "exited"
    /\ reqs[r].state = "none"
    /\ \A q \in Requests : q < r => reqs[q].state # "none"
    /\ reqs' = [reqs EXCEPT ![r] = [NoRequest EXCEPT !.state = "refused"]]
    /\ UNCHANGED <<supVars, cliVars, srv, browser, concurrentPages, caps, acquired, released,
                   launches, clock>>

\* JSON.parse(body) throws: the catch-all answers 500.
BadBody(r, kind) ==
    /\ NextRequest(r)
    /\ Reply(r, kind, 500, "Unexpected token")

\* POST /scan
Scan(r, hasTarget, viewports) ==
    /\ NextRequest(r)
    /\ IF ~hasTarget THEN Reply(r, "scan", 400, "targetUrl required")
       ELSE Launch(r, "scan", IF viewports = AbsentList THEN DefaultDevices ELSE viewports)

\* POST /screenshot
Screenshot(r, hasTarget, device) ==
    /\ NextRequest(r)
    /\ IF ~hasTarget THEN Reply(r, "screenshot", 400, "targetUrl required")
       ELSE IF device = Absent THEN Reply(r, "screenshot", 400, "device required")
       ELSE Launch(r, "screenshot", <<device>>)

\* POST /screenshots
Screenshots(r, hasTarget, devices) ==
    /\ NextRequest(r)
    /\ IF ~hasTarget THEN Reply(r, "screenshots", 400, "targetUrl required")
       ELSE IF devices = AbsentList THEN Reply(r, "screenshots", 400, "devices must be an array")
       ELSE Launch(r, "screenshots", devices)

-----------------------------------------------------------------------------
(* Steps of one capture: the completion of the awaited call and the code up *)
(* to the next await                                                        *)

\* The capture moves on and still holds its slot.
Advance(c, cap) ==
    /\ caps' = [caps EXCEPT ![c] = cap]
    /\ UNCHANGED <<supVars, cliVars, srv, browser, concurrentPages, reqs, acquired, released,
                   launches, clock>>

\* The capture settles as cap: the slot is given back, and the handler that
\* awaits it continues if this was the last of its captures.
Finish(c, cap) ==
    /\ caps' = [caps EXCEPT ![c] = cap]
    /\ concurrentPages' = ReleaseSlot(concurrentPages)
    /\ released' = [released EXCEPT ![c] = @ + 1]
    /\ Respond(reqs, caps')
    /\ UNCHANGED <<supVars, cliVars, srv, browser, acquired, launches>>

\* The message of an error thrown by a browser call other than the
\* navigation timeout.
BrowserError == "Protocol error"

\* The catch block: the page, if one was opened, is left as it is.
Throw(c, msg) == Finish(c, [caps[c] EXCEPT !.pc = "rejected", !.err = msg])

\* The 100 ms timer of the slot loop fires and the loop finds a free slot.
PollSlot(c) ==
    /\ caps[c].pc = "waiting"
    /\ SlotFree(concurrentPages)
    /\ LET e == EnterCapture(concurrentPages, caps[c].device) IN
         /\ caps' = [caps EXCEPT ![c] = e.cap]
         /\ concurrentPages' = e.cp
         /\ acquired' = [acquired EXCEPT ![c] = @ + e.acq]
         /\ released' = [released EXCEPT ![c] = @ + e.rel]
         /\ launches' = launches + (e.cp - concurrentPages) * CaptureLaunches(browser)
         /\ Respond(reqs, caps')
         /\ UNCHANGED <<supVars, cliVars, srv, browser>>

\* The 100 ms timer of the slot loop fires and the loop finds no free slot: it
\* sleeps again, as often as that happens.
PollBusy(c) ==
    /\ caps[c].pc = "waiting"
    /\ ~SlotFree(concurrentPages)
    /\ caps[c].polls < MaxPolls
    /\ caps' = [caps EXCEPT ![c].polls = @ + 1]
    /\ UNCHANGED <<supVars, cliVars, srv, browser, concurrentPages, reqs, acquired, released,
                   launches, clock>>

\* browser.newPage() returns; page.setViewport is called.
NewPageDone(c, ok) ==
    /\ caps[c].pc = "newPage"
    /\ IF ok THEN Advance(c, [caps[c] EXCEPT !.pc = "setViewport", !.page = "open"])
       ELSE Throw(c, BrowserError)

\* page.setViewport returns; page.goto is called.
SetViewportDone(c, ok) ==
    /\ caps[c].pc = "setViewport"
    /\ IF ok THEN Advance(c, [caps[c] EXCEPT !.pc = "goto"])
       ELSE Throw(c, BrowserError)

\* page.goto returns or its 30 s timeout expires; page.screenshot is called.
GotoDone(c, ok) ==
    /\ caps[c].pc = "goto"
    /\ IF ok THEN Advance(c, [caps[c] EXCEPT !.pc = "screenshot"])
       ELSE Throw(c, "Navigation timeout")

Images == {"png", ""}

\* page.screenshot returns the base64 string img, or throws; page.close is called.
ScreenshotDone(c, ok, img) ==
    /\ caps[c].pc = "screenshot"
    /\ IF ok THEN Advance(c, [caps[c] EXCEPT !.pc = "close", !.img = img])
       ELSE /\ img = ""
            /\ Throw(c, BrowserError)

\* page.close() returns: the counter is decremented and the string returned.
CloseDone(c, ok) ==
    /\ caps[c].pc = "close"
    /\ IF ok THEN Finish(c, [caps[c] EXCEPT !.pc = "resolved", !.page = "closed"])
       ELSE Throw(c, BrowserError)

-----------------------------------------------------------------------------
NextCapture ==
    \/ \E launched \in BOOLEAN : StartServer(launched)
    \/ \E r \in Requests, kind \in {"scan", "screenshot", "screenshots"} : BadBody(r, kind)
    \/ \E r \in Requests, t \in BOOLEAN, v \in DeviceLists \cup {AbsentList} : Scan(r, t, v)
    \/ \E r \in Requests, t \in BOOLEAN, d \in InputDevices \cup {Absent} : Screenshot(r, t, d)
    \/ \E r \in Requests, t \in BOOLEAN, v \in DeviceLists \cup {AbsentList} : Screenshots(r, t, v)
    \/ \E r \in Requests : Refused(r)
    \/ \E c \in CapIds : PollSlot(c)
    \/ \E c \in CapIds : PollBusy(c)
    \/ \E c \in CapIds, ok \in BOOLEAN : NewPageDone(c, ok)
    \/ \E c \in CapIds, ok \in BOOLEAN : SetViewportDone(c, ok)
    \/ \E c \in CapIds, ok \in BOOLEAN : GotoDone(c, ok)
    \/ \E c \in CapIds, ok \in BOOLEAN, img \in Images : ScreenshotDone(c, ok, img)
    \/ \E c \in CapIds, ok \in BOOLEAN : CloseDone(c, ok)

SpecCapture == InitCapture /\ [][NextCapture]_vars

\* The steps of the captures: the timer of a slot loop fires, or a browser
\* operation returns or throws.
CaptureStep ==
    \/ \E c \in CapIds : PollSlot(c)
    \/ \E c \in CapIds : PollBusy(c)
    \/ \E c \in CapIds, ok \in BOOLEAN : NewPageDone(c, ok)
    \/ \E c \in CapIds, ok \in BOOLEAN : SetViewportDone(c, ok)
    \/ \E c \in CapIds, ok \in BOOLEAN : GotoDone(c, ok)
    \/ \E c \in CapIds, ok \in BOOLEAN, img \in Images : ScreenshotDone(c, ok, img)
    \/ \E c \in CapIds, ok \in BOOLEAN : CloseDone(c, ok)

\* The service with /scan requests alone.
NextScanRequests ==
    \/ \E launched \in BOOLEAN : StartServer(launched)
    \/ \E r \in Requests : BadBody(r, "scan")
    \/ \E r \in Requests, t \in BOOLEAN, v \in DeviceLists \cup {AbsentList} : Scan(r, t, v)
    \/ CaptureStep

\* Timers fire and every browser operation returns or throws in the end; no
\* more is assumed of the requests than that there are finitely many.
SpecScanRequests == InitCapture /\ [][NextScanRequests]_vars /\ WF_vars(CaptureStep)

-----------------------------------------------------------------------------
(* Properties of the capture server *)

CapsOf(r) == {c \in CapIds : c[1] = r /\ c[2] <= Len(reqs[r].devices)}

Holding == {c \in CapIds : HoldsSlot(c)}

FannedOut(r) ==
    /\ reqs[r].state = "responded"
    /\ reqs[r].kind \in {"scan", "screenshots"}
    /\ Len(reqs[r].devices) > 0

\* C1: at most MAX_CONCURRENT_PAGES captures hold a slot at once, counted over
\* the captures of all requests together.
C1_GlobalCap ==
    /\ Cardinality(Holding) <= MAX_CONCURRENT_PAGES
    /\ concurrentPages <= MAX_CONCURRENT_PAGES

\* Three captures of two different requests hold the slots and a fourth waits.
C1_Witness ==
    /\ Cardinality(Holding) = MAX_CONCURRENT_PAGES
    /\ \E c, d \in Holding : c[1] # d[1]
    /\ \E c \in CapIds : caps[c].pc = "waiting"

\* C2: a /scan or /screenshots request that fanned out is answered with 200,
\* after each of its captures reached its own outcome, and the answer carries
\* the result of every capture that succeeded; and the step in which one
\* capture fails changes no sibling that was already started.
C2_Answered ==
    \A r \in Requests : FannedOut(r) =>
        /\ reqs[r].http = 200
        /\ \A c \in CapsOf(r) :
              /\ Settled(caps[c])
              /\ caps[c].pc = "resolved" =>
                    \E j \in 1 .. Len(reqs[r].results) :
                        /\ reqs[r].results[j].success
                        /\ reqs[r].results[j].image = caps[c].img
                        /\ reqs[r].results[j].dimensions = Dimensions(caps[c].device)

C2_SiblingsUntouched ==
    \A c, d \in CapIds :
        (/\ c # d
         /\ c[1] = d[1]
         /\ caps[c].pc # "rejected"
         /\ caps'[c].pc = "rejected"
         /\ caps[d].pc # "none") => caps'[d] = caps[d]

Succeeded(r) == {c \in CapsOf(r) : caps[c].pc = "resolved"}

Failed(r) == {c \in CapsOf(r) : caps[c].pc = "rejected"}

ExpectedStatus(r) ==
    IF Succeeded(r) = {} THEN "failed"
    ELSE IF Failed(r) # {} THEN "partial"
    ELSE "complete"

ScanAnswered(r) ==
    /\ reqs[r].state = "responded"
    /\ reqs[r].kind = "scan"
    /\ reqs[r].http = 200
    /\ Len(reqs[r].devices) > 0

\* C3: the status of a /scan response is "partial" if captures both succeeded
\* and failed, "failed" if none succeeded, "complete" otherwise.
C3_Status ==
    \A r \in Requests : ScanAnswered(r) => reqs[r].status = ExpectedStatus(r)

\* C4: the results of a /scan response hold one entry per requested device, in
\* order; the entry of a failed capture has no image and a non-empty error.
C4_OneEntryPerDevice ==
    \A r \in Requests : ScanAnswered(r) =>
        /\ Len(reqs[r].results) = Len(reqs[r].devices)
        /\ \A i \in 1 .. Len(reqs[r].results) :
              /\ reqs[r].results[i].device = ToLowerCase(reqs[r].devices[i])
              /\ caps[<<r, i>>].pc = "rejected" =>
                    /\ reqs[r].results[i].image = ""
                    /\ reqs[r].results[i].error # ""

\* C5: a capture that took a slot gives it back exactly once, however it
\* ends; the counter equals the number of captures in flight, so it is never
\* negative and is 0 when none is in flight.
C5_SlotReleasedOnce ==
    /\ \A c \in CapIds :
          /\ acquired[c] <= 1
          /\ released[c] <= acquired[c]
          /\ HoldsSlot(c) <=> (acquired[c] = 1 /\ released[c] = 0)
          /\ Settled(caps[c]) => (acquired[c] = 1 /\ released[c] = 1)
    /\ concurrentPages = Cardinality(Holding)
    /\ concurrentPages >= 0

\* Captures ended in success, in a navigation timeout and in another error,
\* and none is in flight.
C5_Witness ==
    /\ \E c \in CapIds : caps[c].pc = "resolved"
    /\ \E c \in CapIds : caps[c].pc = "rejected" /\ caps[c].err = "Navigation timeout"
    /\ \E c \in CapIds : caps[c].pc = "rejected" /\ caps[c].err = BrowserError
    /\ Holding = {}
    /\ concurrentPages = 0

\* C6: a capture that has settled has no page left open.
C6_PageClosed ==
    \A c \in CapIds : Settled(caps[c]) => caps[c].page # "open"

InitFailed == launches > 0 /\ browser = "null"

\* C14: after the browser failed to initialize, every capture request is
\* answered, and each of its captures is rejected with the error of the
\* launch, without having waited for or taken a slot.
C14_CachedInitError ==
    InitFailed =>
        \A r \in Requests : reqs[r].state # "none" =>
            /\ reqs[r].state = "responded"
            /\ \A c \in CapsOf(r) :
                  /\ caps[c].pc = "rejected"
                  /\ caps[c].err = LaunchError
                  /\ acquired[c] = 0

\* C15: after the browser failed to initialize the service is reachable and
\* GET / answers 503; GET / answers 200 only when the browser is ready.
C15_Degraded ==
    /\ InitFailed => HealthCheck(srv) = "503"
    /\ HealthCheck(srv) = "200" => browser = "ready"

\* C16: puppeteer.launch is called at most once in the life of the process,
\* by start() and by no request or capture.
C16_OneLaunch ==
    /\ launches <= 1
    /\ srv = "boot" <=> launches = 0

\* The one launch succeeded, and captures have since succeeded, failed and
\* waited for a slot.
C16_Witness ==
    /\ launches = 1
    /\ browser = "ready"
    /\ \E c \in CapIds : caps[c].pc = "resolved"
    /\ \E c \in CapIds : caps[c].pc = "rejected"
    /\ \E c \in CapIds : caps[c].pc = "waiting"

\* The one launch failed, and a request was made after that.
C16_WitnessFailed ==
    /\ launches = 1
    /\ browser = "null"
    /\ \E r \in Requests : reqs[r].state = "refused"

ClientErrors == {"targetUrl required", "device required", "devices must be an array"}

\* C17: a capture of an unknown device is rejected in the step that starts it:
\* it is never seen waiting for a slot, holding one or with a page; a request with a missing field starts no capture;
\* and both are answered as client errors (400), an unknown device never as a
\* server error.
C17_ClientErrorImmediate ==
    /\ \A c \in CapIds : (caps[c].pc # "none" /\ ~KnownDevice(caps[c].device)) =>
          /\ caps[c].pc = "rejected"
          /\ caps[c].page = "none"
    /\ \A r \in Requests : reqs[r].state = "responded" =>
          /\ reqs[r].error \in ClientErrors => (reqs[r].http = 400 /\ CapsOf(r) = {})
          /\ reqs[r].error = "Unknown device" => reqs[r].http = 400

\* C18: a capture that succeeded carries image data of non-zero length.
C18_NoEmptyCapture ==
    \A c \in CapIds : caps[c].pc = "resolved" => caps[c].img # ""

ScanWithId(r) ==
    /\ reqs[r].state = "responded"
    /\ reqs[r].kind = "scan"
    /\ reqs[r].http = 200

\* C19: two scans answered by one server process carry different scanIds.
C19_UniqueScanId ==
    \A r, q \in Requests :
        (r # q /\ ScanWithId(r) /\ ScanWithId(q)) => reqs[r].scanId # reqs[q].scanId

\* C20: the wait for a slot ends, with a slot or with a failure, by the time
\* a cap on the polls is reached (MaxPolls stands for the cap, whatever it is).
C20_BoundedWait ==
    \A c \in CapIds : caps[c].pc = "waiting" => caps[c].polls < MaxPolls

-----------------------------------------------------------------------------
(* The service process a supervisor spawned (viewport-server running        *)
(* index.js), seen from outside                                             *)

\* start() of index.js got its browser and calls server.listen: the process
\* answers on the port from now on, or dies of the unhandled 'error' event
\* if the port is taken.
ProcListen(p) ==
    /\ procs[p].state = "starting"
    /\ procs[p].owner # Tunnel
    /\ IF foreign = "none" /\ Listening(procs) = {}
       THEN procs' = [procs EXCEPT ![p].state = "listening"]
       ELSE procs' = [procs EXCEPT ![p].state = "exited", ![p].end = "self"]
    /\ UNCHANGED <<capVars, cliVars, sup, foreign, quota>>

\* start() of index.js: the browser launch fails and the process exits.
ProcFail(p) ==
    /\ procs[p].state = "starting"
    /\ procs[p].owner # Tunnel
    /\ procs' = [procs EXCEPT ![p].state = "exited", ![p].end = "self"]
    /\ UNCHANGED <<capVars, cliVars, sup, foreign, quota>>

\* The process that was sent SIGKILL is gone.
ProcDie(p) ==
    /\ procs[p].state = "dying"
    /\ procs' = [procs EXCEPT ![p].state = "exited", ![p].end = "kill"]
    /\ UNCHANGED <<capVars, cliVars, sup, foreign, quota>>

\* cloudflared ends of itself (no route to the edge, a crash).
TunnelExit(p) ==
    /\ procs[p].state = "starting"
    /\ procs[p].owner = Tunnel
    /\ procs' = [procs EXCEPT ![p].state = "exited", ![p].end = "self"]
    /\ UNCHANGED <<capVars, cliVars, sup, foreign, quota>>

\* The signal a supervisor sends first when it stops its process: SIGTERM
\* from Manager.Stop, SIGINT from killServer, os.Interrupt from
\* TunnelManager.Stop.
GracefulSignal(owner) == IF owner \in GoManagers THEN "SIGTERM" ELSE "SIGINT"

\* index.js handles SIGINT alone: the handler closes the browser and exits.
\* Any other signal ends the process as it is.
ClosesBrowser(sig) == sig = "SIGINT"

\* What becomes of the browser of a server process that ends on the signal:
\* there is one once the server listens (start() launches it before).
BrowserAtExit(ps, p) ==
    IF ps[p].owner # Tunnel /\ ps[p].state = "listening"
    THEN IF ClosesBrowser(GracefulSignal(ps[p].owner)) THEN "closed" ELSE "open"
    ELSE ""

\* The process acts on the termination signal it was sent. (A process that
\* ignores the signal never takes this step.)
ProcTerminate(p) ==
    /\ p \in Alive(procs)
    /\ procs[p].termed
    /\ procs' = [procs EXCEPT ![p].state = "exited", ![p].end = "term",
                              ![p].closed = BrowserAtExit(procs, p)]
    /\ UNCHANGED <<capVars, cliVars, sup, foreign, quota>>

\* Mutant: the signal goes to every process that runs.
SignalAll(ps, p) ==
    [q \in ProcIds |-> IF q \in Alive(ps) THEN [ps[q] EXCEPT !.termed = TRUE] ELSE ps[q]]

\* Process.Signal(SIGTERM) / kill('SIGINT'): no effect on a process that is gone.
Signal(ps, p) ==
    IF p \in Alive(ps) THEN [ps EXCEPT ![p].termed = TRUE] ELSE ps

\* Mutant: the kill is left out.
KillForgotten(ps, p) == ps

\* Process.Kill(): SIGKILL is sent and the call returns; the process is gone
\* a moment later (ProcDie). No effect on a process that has ended.
Kill(ps, p) ==
    IF p \in Alive(ps) THEN [ps EXCEPT ![p].state = "dying"] ELSE ps

\* The Process.Kill() of a stop, with a record of what it met.
ForceKill(ps, p) ==
    [Kill(ps, p) EXCEPT ![p].forced = IF p \in Alive(ps) THEN "alive" ELSE "gone"]

\* Mutant: cmd.Wait() is taken to have returned come what may.
WaitReturnedEarly(p) == TRUE

\* cmd.Wait() returns once the process has exited (at once if it had exited
\* or had been waited for before).
WaitReturned(p) == procs[p].state = "exited"

\* Mutant: the timer case of the select is taken whatever done holds.
GraceExpiredAnyway(p) == TRUE

\* The select of a stop blocks on done and on the 5 s timer and goes on with
\* the one that becomes ready first: with the timer only when cmd.Wait() has
\* not returned by then, which takes a process that still runs after 5 s (one
\* that was sent SIGKILL before is gone long before the timer).
GraceExpired(p) == p \in Alive(procs)

-----------------------------------------------------------------------------
(* Manager (manager.go) *)

Port == 3001

\* NewManager: serverURL = fmt.Sprintf("http://127.0.0.1:%d", port)
GetURL == <<"http://127.0.0.1", Port>>

\* Mutant: only 200 counts.
IsRunningOnlyOK(resp) == resp = "200"

\* The last line of IsRunning, on the outcome of its GET.
IsRunning(resp) == resp = "200" \/ resp = "503"

\* Mutant: Start does not heed its first probe.
NeverAlreadyRunning(resp) == FALSE

\* The check at the top of Manager.Start.
AlreadyRunning(resp) == IsRunning(resp)

FreeProc == CHOOSE p \in ProcIds : procs[p].state = "none" /\
                \A q \in ProcIds : procs[q].state = "none" => p <= q

Call(resp, spawned, result, url) ==
    [probe |-> resp, spawned |-> spawned, result |-> result, url |-> url]

\* The call returns; its loop counter is gone with it.
Returned(s, result) ==
    [sup[s] EXCEPT !.pc = "idle", !.ret = result, !.i = 0,
                   !.log[Len(sup[s].log)].result = IF result = "start-ok" THEN "ok" ELSE "error"]

\* Manager.Start up to the health loop: the first probe, and cmd.Start() if
\* nothing answered.
Start(m, resp, started) ==
    /\ sup[m].pc = "idle"
    /\ Len(sup[m].log) < quota[m].starts
    /\ resp \in ProbeOutcomes
    /\ IF AlreadyRunning(resp)
       THEN /\ started     \* nothing is started: one value, to count the step once
            /\ sup' = [sup EXCEPT ![m].ret = "start-ok",
                                  ![m].log = Append(@, Call(resp, 0, "ok", GetURL))]
            /\ procs' = procs
       ELSE IF started
       THEN /\ procs' = [procs EXCEPT ![FreeProc] =
                           [NoProc EXCEPT !.state = "starting", !.owner = m, !.probe = resp]]
            /\ sup' = [sup EXCEPT ![m].pc = "polling", ![m].cmd = FreeProc, ![m].i = 0,
                                  ![m].log = Append(@, Call(resp, 1, "pending", GetURL))]
       ELSE /\ procs' = procs
            /\ sup' = [sup EXCEPT ![m].cmd = Unstarted, ![m].ret = "start-error",
                                  ![m].log = Append(@, Call(resp, 0, "error", GetURL))]
    /\ UNCHANGED <<capVars, cliVars, foreign, quota>>

\* One round of the health loop of Manager.Start.
StartPoll(m, resp) ==
    /\ sup[m].pc = "polling"
    /\ sup[m].i < maxAttempts
    /\ resp \in ProbeOutcomes
    /\ IF IsRunning(resp)
       THEN sup' = [sup EXCEPT ![m] = Returned(m, "start-ok")]
       ELSE sup' = [sup EXCEPT ![m].i = @ + 1]
    /\ UNCHANGED <<capVars, cliVars, procs, foreign, quota>>

\* The health loop of Manager.Start is over: the process is killed and the
\* error returned.
StartTimeout(m) ==
    /\ sup[m].pc = "polling"
    /\ sup[m].i = maxAttempts
    /\ procs' = Kill(procs, sup[m].cmd)
    /\ sup' = [sup EXCEPT ![m] = Returned(m, "start-error")]
    /\ UNCHANGED <<capVars, cliVars, foreign, quota>>

\* Manager.Stop up to its select: nothing to do without a process; else
\* SIGTERM is sent and a goroutine waits for the process.
Stop(m) ==
    /\ sup[m].pc = "idle"
    /\ sup[m].stops < quota[m].stops
    /\ IF sup[m].cmd \in {Nil, Unstarted}
       THEN /\ sup' = [sup EXCEPT ![m].ret = "stop-ok", ![m].stops = @ + 1]
            /\ procs' = procs
       ELSE /\ sup' = [sup EXCEPT ![m].pc = "stopping", ![m].stops = @ + 1]
            /\ procs' = Signal(procs, sup[m].cmd)
    /\ UNCHANGED <<capVars, cliVars, foreign, quota>>

\* The select of Manager.Stop takes the done case.
StopDone(m) ==
    /\ sup[m].pc = "stopping"
    /\ WaitReturned(sup[m].cmd)
    /\ sup' = [sup EXCEPT ![m].pc = "idle", ![m].ret = "stop-ok"]
    /\ UNCHANGED <<capVars, cliVars, procs, foreign, quota>>

\* The select of Manager.Stop takes the 5 s timer: the process is killed, and
\* Stop goes on to receive from done.
StopGraceOver(m) ==
    /\ sup[m].pc = "stopping"
    /\ GraceExpired(sup[m].cmd)
    /\ procs' = ForceKill(procs, sup[m].cmd)
    /\ sup' = [sup EXCEPT ![m].pc = "reaping"]
    /\ UNCHANGED <<capVars, cliVars, foreign, quota>>

\* <-done after the kill.
StopReaped(m) ==
    /\ sup[m].pc = "reaping"
    /\ WaitReturned(sup[m].cmd)
    /\ sup' = [sup EXCEPT ![m].pc = "idle", ![m].ret = "stop-ok"]
    /\ UNCHANGED <<capVars, cliVars, procs, foreign, quota>>

\* Manager.Kill(): nothing to do without a process; else Process.Kill(). It
\* is one of the calls by which a client stops the server.
ManagerKill(m) ==
    /\ sup[m].pc = "idle"
    /\ quota[m].kills
    /\ sup[m].stops < quota[m].stops
    /\ sup' = [sup EXCEPT ![m].ret = "kill-ok", ![m].stops = @ + 1]
    /\ procs' = IF sup[m].cmd \in {Nil, Unstarted} THEN procs ELSE Kill(procs, sup[m].cmd)
    /\ UNCHANGED <<capVars, cliVars, foreign, quota>>

-----------------------------------------------------------------------------
(* The launcher (lib/launcher.js) *)

\* const serverUrl = `http://localhost:${port}`
ServerUrl == <<"http://localhost", Port>>

\* isServerRunning resolves true on status 200 only.
IsServerRunning(resp) == resp = "200"

\* Mutant: ensureServerRunning does not heed its first probe.
NeverFoundRunning(resp) == FALSE

\* alreadyRunning in ensureServerRunning.
FoundRunning(resp) == IsServerRunning(resp)

\* ensureServerRunning(port, true) up to waitForServer: the first probe, and
\* spawnServer if that found nothing.
EnsureServerRunning(s, resp, started) ==
    /\ s = Launcher
    /\ sup[s].pc = "idle"
    /\ Len(sup[s].log) < quota[s].starts
    /\ resp \in ProbeOutcomes
    /\ IF FoundRunning(resp)
       THEN /\ started
            /\ sup' = [sup EXCEPT ![s].ret = "start-ok",
                                  ![s].log = Append(@, Call(resp, 0, "ok", ServerUrl))]
            /\ procs' = procs
       ELSE IF started
       THEN /\ procs' = [procs EXCEPT ![FreeProc] =
                           [NoProc EXCEPT !.state = "starting", !.owner = s, !.probe = resp]]
            /\ sup' = [sup EXCEPT ![s].pc = "polling", ![s].cmd = FreeProc, ![s].i = 0,
                                  ![s].log = Append(@, Call(resp, 1, "pending", ServerUrl))]
       ELSE /\ procs' = procs
            /\ sup' = [sup EXCEPT ![s].cmd = Unstarted, ![s].ret = "start-error",
                                  ![s].log = Append(@, Call(resp, 0, "error", ServerUrl))]
    /\ UNCHANGED <<capVars, cliVars, foreign, quota>>

\* One round of waitForServer(port, 60, 500).
WaitForServer(s, resp) ==
    /\ s = Launcher
    /\ sup[s].pc = "polling"
    /\ sup[s].i < LauncherMaxAttempts
    /\ resp \in ProbeOutcomes
    /\ IF IsServerRunning(resp)
       THEN sup' = [sup EXCEPT ![s] = Returned(s, "start-ok")]
       ELSE sup' = [sup EXCEPT ![s].i = @ + 1]
    /\ UNCHANGED <<capVars, cliVars, procs, foreign, quota>>

\* waitForServer returned false: ensureServerRunning throws.
EnsureTimeout(s) ==
    /\ s = Launcher
    /\ sup[s].pc = "polling"
    /\ sup[s].i = LauncherMaxAttempts
    /\ sup' = [sup EXCEPT ![s] = Returned(s, "start-error")]
    /\ UNCHANGED <<capVars, cliVars, procs, foreign, quota>>

\* killPortProcess(port): kill -9 goes to every process that listens on the
\* port, if the command that finds them runs (swept); its failure is
\* swallowed.
KillPortProcess(ps, swept) ==
    [p \in ProcIds |-> IF swept /\ p \in Listening(ps)
                       THEN [ps[p] EXCEPT !.state = "dying"] ELSE ps[p]]

\* The service that was on the port before goes the same way.
ForeignAfterSweep(swept) == IF swept THEN "none" ELSE foreign

\* serverProcess.killed: a signal was delivered to the process by kill().
Killed(ps, p) == ps[p].termed

\* The timer of killServer, with a record of what it met: SIGKILL is sent
\* only if serverProcess.killed is not set.
ForceKillUnlessKilled(ps, p) ==
    [(IF Killed(ps, p) THEN ps ELSE Kill(ps, p)) EXCEPT
        ![p].forced = IF p \in Alive(ps) THEN "alive" ELSE "gone"]

\* killServer(port) up to its return or, with a process to kill, up to
\* kill('SIGINT') and the setting of the timer.
KillServer(s, swept) ==
    /\ s = Launcher
    /\ sup[s].pc = "idle"
    /\ sup[s].stops < quota[s].stops
    /\ IF sup[s].cmd \in ProcIds /\ ~Killed(procs, sup[s].cmd)
       THEN /\ swept     \* nothing is swept yet: one value
            /\ procs' = Signal(procs, sup[s].cmd)
            /\ sup' = [sup EXCEPT ![s].pc = "killing", ![s].stops = @ + 1]
            /\ foreign' = foreign
       ELSE /\ procs' = KillPortProcess(procs, swept)
            /\ sup' = [sup EXCEPT ![s].ret = "stop-ok", ![s].stops = @ + 1]
            /\ foreign' = ForeignAfterSweep(swept)
    /\ UNCHANGED <<capVars, cliVars, quota>>

\* The 'exit' listener of killServer: the port is swept and the promise
\* resolved.
KillServerExited(s, swept) ==
    /\ s = Launcher
    /\ sup[s].pc = "killing"
    /\ Killed(procs, sup[s].cmd)
    /\ WaitReturned(sup[s].cmd)
    /\ procs' = KillPortProcess(procs, swept)
    /\ foreign' = ForeignAfterSweep(swept)
    /\ sup' = [sup EXCEPT ![s].pc = "idle", ![s].ret = "stop-ok"]
    /\ UNCHANGED <<capVars, cliVars, quota>>

\* The 2 s timer of killServer fires before the process has exited (or the
\* process had gone before killServer was called): SIGKILL unless killed is
\* set, the sweep of the port, and the promise is resolved.
KillServerTimer(s, swept) ==
    /\ s = Launcher
    /\ sup[s].pc = "killing"
    /\ GraceExpired(sup[s].cmd) \/ ~Killed(procs, sup[s].cmd)
    /\ procs' = KillPortProcess(ForceKillUnlessKilled(procs, sup[s].cmd), swept)
    /\ foreign' = ForeignAfterSweep(swept)
    /\ sup' = [sup EXCEPT ![s].pc = "idle", ![s].ret = "stop-ok"]
    /\ UNCHANGED <<capVars, cliVars, quota>>

-----------------------------------------------------------------------------
(* TunnelManager (tunnel.go) *)

\* tunnelURL before a URL was found, and a URL that extractTunnelURL matches.
NoURL == ""

TunnelURL == "https://quick-tunnel.trycloudflare.com"

\* What a line of cloudflared's output is to the scan loop of Start: it holds
\* a URL, or (without one) a marker that the tunnel is ready, or neither.
LineKinds == {"url", "marker", "other"}

\* Mutant: the manager is made whatever the dials came to.
PortAccessibleUnchecked(ip, name) == TRUE

\* The test of NewTunnelManager on its dials of 127.0.0.1 and of localhost:
\* the negation of !isLocalPortAccessible(..) && !isLocalPortAccessible(..).
PortAccessible(ip, name) == ~(~ip /\ ~name)

\* Which dial went through; the second is made only if the first failed.
Dialled(ip, name) == IF ip THEN "127.0.0.1" ELSE IF name THEN "localhost" ELSE "none"

\* NewTunnelManager(config): a manager is returned if the local port takes a
\* connection, and an error if not.
NewTunnelManager(t, ip, name) ==
    /\ t = Tunnel
    /\ sup[t].pc = "unmade"
    /\ sup[t].dial = ""
    /\ quota[t].starts > 0
    /\ sup' = [sup EXCEPT ![t].dial = Dialled(ip, name),
                          ![t].pc = IF PortAccessible(ip, name) THEN "idle" ELSE "unmade"]
    /\ UNCHANGED <<capVars, cliVars, procs, foreign, quota>>

\* Mutant: cloudflared is taken to be there.
CloudflaredAssumed(installed) == TRUE

\* isCloudflaredInstalled: `which cloudflared` ran with exit status 0.
IsCloudflaredInstalled(installed) == installed

\* A call of TunnelManager.Start has returned for the reason why: the entry
\* of the call in the log gets the reason, and the timer is gone.
TunnelReturned(t, result, why) ==
    [Returned(t, result) EXCEPT !.log[Len(sup[t].log)].probe = why, !.late = FALSE]

\* TunnelManager.Start up to its scan loop: with no cloudflared installed,
\* or if cmd.Start() fails, nothing is spawned and tm.cmd stays as it was.
TunnelStart(t, installed, started) ==
    /\ t = Tunnel
    /\ sup[t].pc = "idle"
    /\ Len(sup[t].log) < quota[t].starts
    /\ LET binary == IF installed THEN "none" ELSE "no-binary" IN
       IF ~IsCloudflaredInstalled(installed)
       THEN /\ started    \* the command is not started: one value
            /\ sup' = [sup EXCEPT ![t].ret = "start-error",
                                  ![t].log = Append(@, Call(binary, 0, "error", NoURL))]
            /\ procs' = procs
       ELSE IF ~started
       THEN /\ sup' = [sup EXCEPT ![t].ret = "start-error",
                                  ![t].log = Append(@, Call("exec-failed", 0, "error", NoURL))]
            /\ procs' = procs
       ELSE /\ procs' = [procs EXCEPT ![FreeProc] =
                           [NoProc EXCEPT !.state = "starting", !.owner = t]]
            /\ sup' = [sup EXCEPT ![t].pc = "scanning", ![t].cmd = FreeProc, ![t].i = 0,
                                  ![t].late = FALSE,
                                  ![t].log = Append(@, Call(binary, 1, "pending", NoURL))]
    /\ UNCHANGED <<capVars, cliVars, foreign, quota>>

\* The 15 s timer of Start fires: timeoutChan becomes ready.
TunnelTimer(t) ==
    /\ t = Tunnel
    /\ sup[t].pc = "scanning"
    /\ ~sup[t].late
    /\ sup' = [sup EXCEPT ![t].late = TRUE]
    /\ UNCHANGED <<capVars, cliVars, procs, foreign, quota>>

\* cloudflared writes a line to the pipe Start reads from: one with the URL,
\* one with a ready marker, or any other.
TunnelOutput(p, line) ==
    /\ procs[p].owner = Tunnel
    /\ procs[p].state = "starting"
    /\ sup[Tunnel].pc = "scanning"
    /\ sup[Tunnel].cmd = p
    /\ procs[p].out = ""
    /\ line = "other" => sup[Tunnel].i < MaxLines
    /\ procs' = [procs EXCEPT ![p].out = line]
    /\ UNCHANGED <<capVars, cliVars, sup, foreign, quota>>

\* The line is taken out of the pipe.
Taken(ps, p) == [ps EXCEPT ![p].out = ""]

\* scanner.Scan() returns the line that was written. A URL ends the loop with
\* success; a ready marker ends it without a URL, which kills the process and
\* fails; only after any other line is the timer looked at.
TunnelScan(t) ==
    /\ t = Tunnel
    /\ sup[t].pc = "scanning"
    /\ procs[sup[t].cmd].out # ""
    /\ LET line == procs[sup[t].cmd].out IN
       CASE line = "url" ->
              /\ sup' = [sup EXCEPT ![t] =
                           [TunnelReturned(t, "start-ok", "url") EXCEPT
                               !.log[Len(sup[t].log)].url = TunnelURL]]
              /\ procs' = Taken(procs, sup[t].cmd)
         [] line = "marker" ->
              /\ sup' = [sup EXCEPT ![t] = TunnelReturned(t, "start-error", "marker")]
              /\ procs' = Kill(Taken(procs, sup[t].cmd), sup[t].cmd)
         [] OTHER ->
              IF sup[t].late
              THEN /\ sup' = [sup EXCEPT ![t] = TunnelReturned(t, "start-error", "timeout")]
                   /\ procs' = Kill(Taken(procs, sup[t].cmd), sup[t].cmd)
              ELSE /\ sup' = [sup EXCEPT ![t].i = @ + 1]
                   /\ procs' = Taken(procs, sup[t].cmd)
    /\ UNCHANGED <<capVars, cliVars, foreign, quota>>

\* scanner.Scan() returns false: the process has exited and its output is
\* read to the end. No URL was found: Kill (of a process that is gone) and
\* the error.
TunnelEOF(t) ==
    /\ t = Tunnel
    /\ sup[t].pc = "scanning"
    /\ procs[sup[t].cmd].state = "exited"
    /\ procs[sup[t].cmd].out = ""
    /\ sup' = [sup EXCEPT ![t] = TunnelReturned(t, "start-error", "eof")]
    /\ procs' = Kill(procs, sup[t].cmd)
    /\ UNCHANGED <<capVars, cliVars, foreign, quota>>

\* TunnelManager.Stop up to its select: nothing to do without a process;
\* else os.Interrupt is sent and a goroutine waits for the process.
TunnelStop(t) ==
    /\ t = Tunnel
    /\ sup[t].pc = "idle"
    /\ sup[t].stops < quota[t].stops
    /\ IF sup[t].cmd = Nil
       THEN /\ sup' = [sup EXCEPT ![t].ret = "stop-ok", ![t].stops = @ + 1]
            /\ procs' = procs
       ELSE /\ sup' = [sup EXCEPT ![t].pc = "stopping", ![t].stops = @ + 1]
            /\ procs' = Signal(procs, sup[t].cmd)
    /\ UNCHANGED <<capVars, cliVars, foreign, quota>>

\* The caller of Start cancels the context it passed (runScan does so as
\* soon as Start has returned): the command was made by exec.CommandContext,
\* so its process is killed when the context is done.
TunnelCancel(t) ==
    /\ t = Tunnel
    /\ sup[t].pc = "idle"
    /\ sup[t].ret = "start-ok"
    /\ sup[t].cmd \in Alive(procs)
    /\ procs' = Kill(procs, sup[t].cmd)
    /\ UNCHANGED <<capVars, cliVars, sup, foreign, quota>>

\* The select of TunnelManager.Stop takes the done case.
TunnelStopDone(t) ==
    /\ t = Tunnel
    /\ sup[t].pc = "stopping"
    /\ WaitReturned(sup[t].cmd)
    /\ sup' = [sup EXCEPT ![t].pc = "idle", ![t].ret = "stop-ok"]
    /\ UNCHANGED <<capVars, cliVars, procs, foreign, quota>>

\* The select of TunnelManager.Stop takes the 5 s timer: the process is
\* killed and Stop returns.
TunnelStopGraceOver(t) ==
    /\ t = Tunnel
    /\ sup[t].pc = "stopping"
    /\ GraceExpired(sup[t].cmd)
    /\ procs' = ForceKill(procs, sup[t].cmd)
    /\ sup' = [sup EXCEPT ![t].pc = "idle", ![t].ret = "stop-ok"]
    /\ UNCHANGED <<capVars, cliVars, foreign, quota>>

-----------------------------------------------------------------------------
InitSupervisor ==
    /\ ServerBooting
    /\ NobodySupervising
    /\ NoClient
    /\ foreign \in ForeignKinds
    /\ quota \in Scenarios

NextSupervisor ==
    \/ \E p \in ProcIds : ProcListen(p)
    \/ \E p \in ProcIds : ProcFail(p)
    \/ \E p \in ProcIds : ProcTerminate(p)
    \/ \E p \in ProcIds : ProcDie(p)
    \/ \E m \in GoManagers, resp \in AllOutcomes, started \in BOOLEAN : Start(m, resp, started)
    \/ \E m \in GoManagers, resp \in AllOutcomes : StartPoll(m, resp)
    \/ \E m \in GoManagers : StartTimeout(m)
    \/ \E m \in GoManagers : Stop(m)
    \/ \E m \in GoManagers : StopDone(m)
    \/ \E m \in GoManagers : StopGraceOver(m)
    \/ \E m \in GoManagers : StopReaped(m)
    \/ \E m \in GoManagers : ManagerKill(m)
    \/ \E resp \in AllOutcomes, started \in BOOLEAN : EnsureServerRunning(Launcher, resp, started)
    \/ \E resp \in AllOutcomes : WaitForServer(Launcher, resp)
    \/ EnsureTimeout(Launcher)
    \/ \E swept \in BOOLEAN : KillServer(Launcher, swept)
    \/ \E swept \in BOOLEAN : KillServerExited(Launcher, swept)
    \/ \E swept \in BOOLEAN : KillServerTimer(Launcher, swept)
    \/ \E p \in ProcIds : TunnelExit(p)
    \/ \E installed, started \in BOOLEAN : TunnelStart(Tunnel, installed, started)
    \/ \E ip, name \in BOOLEAN : NewTunnelManager(Tunnel, ip, name)
    \/ TunnelTimer(Tunnel)
    \/ TunnelCancel(Tunnel)
    \/ \E p \in ProcIds, line \in LineKinds : TunnelOutput(p, line)
    \/ TunnelScan(Tunnel)
    \/ TunnelEOF(Tunnel)
    \/ TunnelStop(Tunnel)
    \/ TunnelStopDone(Tunnel)
    \/ TunnelStopGraceOver(Tunnel)

SpecSupervisor == InitSupervisor /\ [][NextSupervisor]_vars

-----------------------------------------------------------------------------
(* The scan command (cmd/scan.go) *)

\* The Manager runScan makes.
ScanManager == "m1"

\* How a run ends: the scan request failed, every screenshot of the answer
\* is empty, or there is a screenshot with data.
ScanOutcomes == {"error", "empty", "ok"}

\* The scan command is called with its flags: noDisplay is --no-display,
\* autoStart the variable --no-auto-start is bound to.
RunScanCalled(nd, nas) ==
    run = [NoRun EXCEPT !.pc = "begin", !.noDisplay = nd, !.autoStart = nas]

\* The test that guards the auto-start block: if !noDisplay.
AutoStarts(r) == ~r.noDisplay

\* Mutant: no cleanup is registered.
StopNeverDeferred(ret) == FALSE

\* The cleanup is registered if Start returned no error.
StopDeferred(ret) == ret = "start-ok"

\* runScan up to its call of serverManager.Start, or past the auto-start
\* block if that is skipped.
RunScanAutoStart ==
    /\ run.pc = "begin"
    /\ IF AutoStarts(run)
       THEN /\ run' = [run EXCEPT !.pc = "starting", !.serverManager = ScanManager]
            /\ quota' = [quota EXCEPT ![ScanManager].starts = 1]
       ELSE /\ run' = [run EXCEPT !.pc = "scanning"]
            /\ quota' = quota
    /\ UNCHANGED <<capVars, sup, procs, foreign, ports, chk, find>>

\* Start has returned: an error is a warning only; without error the Stop is
\* deferred.
RunScanStarted ==
    /\ run.pc = "starting"
    /\ sup[ScanManager].pc = "idle"
    /\ Len(sup[ScanManager].log) = quota[ScanManager].starts
    /\ run' = [run EXCEPT !.pc = "scanning",
                          !.deferred = StopDeferred(sup[ScanManager].ret)]
    /\ UNCHANGED <<capVars, supVars, ports, chk, find>>

\* client.Scan has returned. On an error and on an answer without data the
\* server is stopped if there is a Manager.
RunScanAnswered(outcome) ==
    /\ run.pc = "scanning"
    /\ run.cancelled => outcome = "error"    \* the request is bound to ctx
    /\ IF outcome # "ok" /\ run.serverManager # "nil"
       THEN /\ run' = [run EXCEPT !.pc = "cleanup", !.outcome = outcome]
            /\ quota' = [quota EXCEPT ![ScanManager].stops = @ + 1]
       ELSE /\ run' = [run EXCEPT !.pc = "return", !.outcome = outcome]
            /\ quota' = quota
    /\ UNCHANGED <<capVars, sup, procs, foreign, ports, chk, find>>

\* The Stop of a failure path has returned.
RunScanCleaned ==
    /\ run.pc = "cleanup"
    /\ sup[ScanManager].pc = "idle"
    /\ sup[ScanManager].stops = quota[ScanManager].stops
    /\ run' = [run EXCEPT !.pc = "return"]
    /\ UNCHANGED <<capVars, supVars, ports, chk, find>>

\* The return statement: the deferred function, if any, calls Stop; the
\* deferred cancel() runs after it.
RunScanReturn ==
    /\ run.pc = "return"
    /\ IF run.deferred
       THEN /\ run' = [run EXCEPT !.pc = "deferred"]
            /\ quota' = [quota EXCEPT ![ScanManager].stops = @ + 1]
       ELSE /\ run' = [run EXCEPT !.pc = "returned", !.cancelled = TRUE]
            /\ quota' = quota
    /\ UNCHANGED <<capVars, sup, procs, foreign, ports, chk, find>>

\* The deferred Stop has returned, and so has runScan.
RunScanReturned ==
    /\ run.pc = "deferred"
    /\ sup[ScanManager].pc = "idle"
    /\ sup[ScanManager].stops = quota[ScanManager].stops
    /\ run' = [run EXCEPT !.pc = "returned", !.cancelled = TRUE]
    /\ UNCHANGED <<capVars, supVars, ports, chk, find>>

\* SIGINT or SIGTERM comes to the CLI while the scan request is out: the
\* goroutine of runScan calls cancel().
RunScanSignal ==
    /\ run.pc = "scanning"
    /\ ~run.cancelled
    /\ run' = [run EXCEPT !.cancelled = TRUE]
    /\ UNCHANGED <<capVars, supVars, ports, chk, find>>

\* The context of runScan is done: the server command was made by
\* exec.CommandContext with it, so its process is killed.
ContextKill ==
    /\ run.cancelled
    /\ sup[ScanManager].cmd \in Alive(procs)
    /\ procs' = Kill(procs, sup[ScanManager].cmd)
    /\ UNCHANGED <<capVars, cliVars, sup, foreign, quota>>

InitScan ==
    /\ ServerBooting
    /\ NobodySupervising
    /\ foreign \in ForeignKinds
    /\ quota = NoCalls
    /\ \E nd, nas \in BOOLEAN : RunScanCalled(nd, nas)
    /\ ports = NoPorts
    /\ chk = NoCheck
    /\ find = NoFind

NextScan ==
    \/ RunScanAutoStart
    \/ RunScanStarted
    \/ \E outcome \in ScanOutcomes : RunScanAnswered(outcome)
    \/ RunScanCleaned
    \/ RunScanReturn
    \/ RunScanReturned
    \/ RunScanSignal
    \/ ContextKill
    \/ \E p \in ProcIds : ProcListen(p)
    \/ \E p \in ProcIds : ProcFail(p)
    \/ \E p \in ProcIds : ProcTerminate(p)
    \/ \E p \in ProcIds : ProcDie(p)
    \/ \E resp \in AllOutcomes, started \in BOOLEAN : Start(ScanManager, resp, started)
    \/ \E resp \in AllOutcomes : StartPoll(ScanManager, resp)
    \/ StartTimeout(ScanManager)
    \/ Stop(ScanManager)
    \/ StopDone(ScanManager)
    \/ StopGraceOver(ScanManager)
    \/ StopReaped(ScanManager)

SpecScan == InitScan /\ [][NextScan]_vars

-----------------------------------------------------------------------------
(* The port search of the launcher (lib/launcher.js) *)

\* The ports whose occupants are modelled; every other port is free.
PortRange == Port .. (Port + MaxPorts - 1)

\* What is on a port: nothing, a screenshot server, or another service.
PortKinds == {"free", "server", "other"}

PortKind(p) == IF p \in DOMAIN ports THEN ports[p] ELSE "free"

\* The status a GET / on the port is answered with, if it is answered.
Statuses(p) ==
    CASE PortKind(p) = "server" -> {"200"}
      [] PortKind(p) = "other" -> {"404"}
      [] OTHER -> {}

\* server.listen(port, 'localhost') calls back; on a port in use it emits
\* the error.
Bindable(p) == PortKind(p) = "free"

\* Mutant: a later resolve replaces the value of the promise.
ResolveAgain(c, v) == [c EXCEPT !.state = "resolved", !.value = v]

\* resolve(v) of the promise of isServerRunning: the first call settles it,
\* any later one has no effect.
Resolve(c, v) ==
    IF c.state = "pending" THEN [c EXCEPT !.state = "resolved", !.value = v] ELSE c

\* clearTimeout(timeoutId): no effect on a timer that has fired.
ClearTimeout(c) == IF c.timer = "armed" THEN [c EXCEPT !.timer = "cleared"] ELSE c

\* isServerRunning(port, timeout) up to req.end(): the timer is set and the
\* request is on its way.
IsServerRunningCalled(p) ==
    [NoCheck EXCEPT !.state = "pending", !.timer = "armed", !.net = "inflight", !.port = p]

\* The callback of setTimeout: resolve(false).
CheckTimeout ==
    /\ chk.timer = "armed"
    /\ chk' = Resolve([chk EXCEPT !.timer = "fired"], FALSE)
    /\ UNCHANGED <<capVars, supVars, run, ports, find>>

\* The callback of http.request: the response has come.
CheckResponse(status) ==
    /\ chk.net = "inflight"
    /\ status \in Statuses(chk.port)
    /\ chk' = Resolve(ClearTimeout([chk EXCEPT !.net = "answered", !.status = status,
                                               !.intime = (chk.timer = "armed")]),
                      status = "200")
    /\ UNCHANGED <<capVars, supVars, run, ports, find>>

\* req.on('error'): the connection was refused, or broke (before or after
\* the response).
CheckError ==
    /\ chk.net \in {"inflight", "answered"}
    /\ chk' = Resolve(ClearTimeout([chk EXCEPT !.net = "broken"]), FALSE)
    /\ UNCHANGED <<capVars, supVars, run, ports, find>>

\* findAvailablePort(startPort, maxAttempts) is called.
FindCalled(startPort, attempts) ==
    [NoFind EXCEPT !.pc = "loop", !.startPort = startPort, !.maxAttempts = attempts,
                   !.first = startPort, !.count = attempts]

\* Mutant: the recursive call is given maxAttempts as it was.
AttemptsKept(n, i) == n

\* The second argument of the recursive call.
AttemptsLeft(n, i) == n - i - 1

\* The head of the loop: isServerRunning(startPort + i, 500) is called, or
\* the loop is over and the error is thrown.
FindLoop ==
    /\ find.pc = "loop"
    /\ IF find.i < find.maxAttempts
       THEN /\ find' = [find EXCEPT !.pc = "checking"]
            /\ chk' = IsServerRunningCalled(find.startPort + find.i)
       ELSE /\ find' = [find EXCEPT !.pc = "thrown"]
            /\ chk' = chk
    /\ UNCHANGED <<capVars, supVars, run, ports>>

\* The await of isServerRunning goes on: to the next port if a server
\* answered, to the bind if not.
FindChecked ==
    /\ find.pc = "checking"
    /\ chk.state = "resolved"
    /\ find' = IF chk.value
               THEN [find EXCEPT !.pc = "loop", !.i = @ + 1, !.isRunning = TRUE]
               ELSE [find EXCEPT !.pc = "binding", !.isRunning = FALSE]
    /\ UNCHANGED <<capVars, supVars, run, ports, chk>>

\* The bind: the port is the result if it could be bound; if not, the result
\* is that of findAvailablePort(startPort + i + 1, maxAttempts - i - 1).
FindBind ==
    /\ find.pc = "binding"
    /\ find' = IF Bindable(find.startPort + find.i)
               THEN [find EXCEPT !.pc = "resolved", !.result = find.startPort + find.i]
               ELSE [find EXCEPT !.pc = "loop", !.i = 0,
                                 !.startPort = find.startPort + find.i + 1,
                                 !.maxAttempts = AttemptsLeft(find.maxAttempts, find.i)]
    /\ UNCHANGED <<capVars, supVars, run, ports, chk>>

InitLauncher ==
    /\ ServerBooting
    /\ NobodySupervising
    /\ foreign = "none"
    /\ quota = NoCalls
    /\ run = NoRun
    /\ ports \in [PortRange -> PortKinds]
    /\ chk = NoCheck
    /\ \E startPort \in PortRange, attempts \in 0 .. MaxPorts :
          find = FindCalled(startPort, attempts)

NextLauncher ==
    \/ FindLoop
    \/ CheckTimeout
    \/ \E status \in {"200", "404"} : CheckResponse(status)
    \/ CheckError
    \/ FindChecked
    \/ FindBind

SpecLauncher == InitLauncher /\ [][NextLauncher]_vars

-----------------------------------------------------------------------------
(* Properties of the supervisors *)

SpawnedBy(s) == Cardinality({p \in ProcIds : procs[p].owner = s})

\* C8: a call of Start / ensureServerRunning that follows an earlier call of
\* the same supervisor and finds the service healthy (status 200) spawns
\* nothing and returns the URL the earlier call returned; two such calls in
\* succession, the first of which spawned, have spawned one process in total.
C8_SecondCallSpawnsNothing ==
    \A s \in Supervisors :
        /\ \A k \in 2 .. Len(sup[s].log) :
              sup[s].log[k].probe = "200" =>
                  /\ sup[s].log[k].spawned = 0
                  /\ sup[s].log[k].result = "ok"
                  /\ sup[s].log[k].url = sup[s].log[k - 1].url
        /\ (/\ Len(sup[s].log) = 2
            /\ sup[s].log[1].spawned = 1
            /\ sup[s].log[2].probe = "200") => SpawnedBy(s) = 1

\* A Manager whose first Start spawned the service and returned, and whose
\* second Start found it healthy and returned.
C8_Witness ==
    \E m \in GoManagers :
        /\ Len(sup[m].log) = 2
        /\ sup[m].pc = "idle"
        /\ sup[m].log[1].spawned = 1
        /\ sup[m].log[1].result = "ok"
        /\ sup[m].log[2].probe = "200"
        /\ sup[m].cmd \in Listening(procs)

\* The same for the launcher.
C8_WitnessLauncher ==
    /\ Len(sup[Launcher].log) = 2
    /\ sup[Launcher].pc = "idle"
    /\ sup[Launcher].log[1].spawned = 1
    /\ sup[Launcher].log[1].result = "ok"
    /\ sup[Launcher].log[2].probe = "200"

\* C9: of the processes spawned by calls that found nothing on the port, no
\* two are ever alive at once.
C9_NoSecondInstance ==
    Cardinality({p \in Alive(procs) : procs[p].probe = "refused"}) <= 1

\* C10: once Manager.Stop has returned, the process the Manager tracks is not
\* running.
C10_StoppedMeansGone ==
    \A m \in GoManagers :
        (/\ sup[m].pc = "idle"
         /\ sup[m].ret = "stop-ok"
         /\ sup[m].cmd \notin {Nil, Unstarted}) => procs[sup[m].cmd].state = "exited"

\* Two Managers have stopped the processes they spawned: one process exited
\* on the signal, the other ignored it and was killed.
C10_Witness ==
    \E m, n \in GoManagers :
        /\ sup[m].pc = "idle" /\ sup[m].ret = "stop-ok"
        /\ sup[n].pc = "idle" /\ sup[n].ret = "stop-ok"
        /\ sup[m].cmd \in ProcIds /\ sup[n].cmd \in ProcIds
        /\ procs[sup[m].cmd].end = "term"
        /\ procs[sup[n].cmd].termed /\ procs[sup[n].cmd].end = "kill"

\* C11: in Manager.Stop and TunnelManager.Stop the kill follows the graceful
\* signal and goes to a process that has not exited by the end of the grace
\* period; a process that exited of itself or on the signal is never killed
\* by a stop.
C11_KillAfterGrace ==
    \A p \in ProcIds :
        procs[p].owner \in GoManagers \cup {Tunnel} =>
            /\ procs[p].forced # "" => (procs[p].forced = "alive" /\ procs[p].termed)
            /\ procs[p].end \in {"self", "term"} => procs[p].forced = ""

\* A stop of the tunnel has returned after it killed a process that had been
\* sent the signal and had not exited.
C11_Witness ==
    /\ sup[Tunnel].pc = "idle"
    /\ sup[Tunnel].ret = "stop-ok"
    /\ sup[Tunnel].cmd \in ProcIds
    /\ procs[sup[Tunnel].cmd].termed
    /\ procs[sup[Tunnel].cmd].end = "kill"
    /\ procs[sup[Tunnel].cmd].forced = "alive"

\* The same for a Manager.
C11_WitnessManager ==
    \E m \in GoManagers :
        /\ sup[m].pc = "idle"
        /\ sup[m].ret = "stop-ok"
        /\ sup[m].cmd \in ProcIds
        /\ procs[sup[m].cmd].termed
        /\ procs[sup[m].cmd].forced = "alive"

\* Stops have returned over processes that exited on the signal, having
\* killed nothing.
C11_WitnessGraceful ==
    \E s \in GoManagers \cup {Tunnel} :
        /\ sup[s].pc = "idle"
        /\ sup[s].ret = "stop-ok"
        /\ sup[s].cmd \in ProcIds
        /\ procs[sup[s].cmd].end = "term"
        /\ procs[sup[s].cmd].forced = ""

LastCall(s) == sup[s].log[Len(sup[s].log)]

\* A Start that spawned has returned an error: its process is not running.
C12_NoOrphan ==
    \A m \in GoManagers :
        (/\ sup[m].pc = "idle"
         /\ Len(sup[m].log) > 0
         /\ LastCall(m).spawned = 1
         /\ LastCall(m).result = "error") => sup[m].cmd \notin Alive(procs)

\* The health loop goes round only after a poll that could fail, one round at
\* a time; it ends in success before the thirtieth failure, on a poll that
\* could see 200 or 503, and with the process left alone; it ends in the
\* error only after thirty failures, and with the process killed.
C12_PollStep ==
    \A m \in GoManagers : sup[m].pc = "polling" =>
        /\ (sup'[m].pc = "polling" /\ sup'[m].i # sup[m].i) =>
              /\ sup'[m].i = sup[m].i + 1
              /\ sup'[m].i <= maxAttempts
              /\ \E resp \in ProbeOutcomes : ~IsRunning(resp)
        /\ sup'[m].pc = "idle" =>
              \/ /\ sup'[m].ret = "start-ok"
                 /\ sup[m].i < maxAttempts
                 /\ \E resp \in ProbeOutcomes : IsRunning(resp)
                 /\ procs' = procs
                 /\ sup'[m].log[Len(sup'[m].log)].result = "ok"
              \/ /\ sup'[m].ret = "start-error"
                 /\ sup[m].i = maxAttempts
                 /\ sup[m].cmd \notin Alive(procs')
                 /\ sup'[m].log[Len(sup'[m].log)].result = "error"

\* C12: after Manager.Start spawned the service it returns success on the
\* first of at most 30 health polls that sees 200 or 503; after 30 polls that
\* saw neither it kills the process and returns the error, so that no Start
\* returns an error over a running process that it spawned.
C12_HealthLoop == []C12_NoOrphan /\ [][C12_PollStep]_vars

\* A Start has returned the error after 30 polls, its process killed while it
\* was running, with no signal sent before.
C12_Witness ==
    \E m \in GoManagers :
        /\ sup[m].pc = "idle"
        /\ Len(sup[m].log) > 0
        /\ LastCall(m).spawned = 1
        /\ LastCall(m).result = "error"
        /\ procs[sup[m].cmd].end = "kill"
        /\ ~procs[sup[m].cmd].termed

\* A Start has returned success on a poll answered 503.
C12_WitnessDegraded ==
    \E m \in GoManagers :
        /\ sup[m].pc = "idle"
        /\ foreign = "degraded"
        /\ Len(sup[m].log) > 0
        /\ LastCall(m).spawned = 1
        /\ LastCall(m).result = "ok"

\* C13: the first probe of Manager.Start takes the service to be there
\* (nothing is spawned, the call succeeds) exactly when GET / was answered with
\* status 200 or 503; on any other status, a refused connection or a timeout
\* it goes on to spawn.
C13_Reachable200or503 ==
    \A m \in GoManagers : \A k \in 1 .. Len(sup[m].log) :
        /\ sup[m].log[k].probe \in AllOutcomes
        /\ sup[m].log[k].probe \in {"200", "503"} <=>
              (sup[m].log[k].spawned = 0 /\ sup[m].log[k].result = "ok")
        /\ (sup[m].log[k].probe \in {"404", "timeout", "refused"}
               /\ sup[m].log[k].result # "error") => sup[m].log[k].spawned = 1

\* A Manager whose first Start got no answer in time and spawned, and whose
\* second Start was answered 503 and spawned nothing.
C13_Witness ==
    \E m \in GoManagers :
        /\ Len(sup[m].log) = 2
        /\ sup[m].log[1].probe = "timeout"
        /\ sup[m].log[1].spawned = 1
        /\ sup[m].log[2].probe = "503"
        /\ sup[m].log[2].spawned = 0
        /\ sup[m].log[2].result = "ok"

\* A Start answered 404 has spawned.
C13_WitnessOther ==
    \E m \in GoManagers : \E k \in 1 .. Len(sup[m].log) :
        sup[m].log[k].probe = "404" /\ sup[m].log[k].spawned = 1

-----------------------------------------------------------------------------
(* The tunnel *)

\* C21: a tunnel to a local port that takes no connection is rejected before
\* anything is spawned: where both dials failed there is no manager, no call
\* of Start and no process, and a manager there is means a dial went through.
C21_DeadPortRejected ==
    /\ sup[Tunnel].dial = "none" =>
          /\ sup[Tunnel].pc = "unmade"
          /\ sup[Tunnel].log = <<>>
          /\ SpawnedBy(Tunnel) = 0
    /\ (sup[Tunnel].pc # "unmade" \/ SpawnedBy(Tunnel) > 0) =>
          sup[Tunnel].dial \in {"127.0.0.1", "localhost"}

\* NewTunnelManager has returned its error.
C21_Witness ==
    /\ sup[Tunnel].dial = "none"
    /\ sup[Tunnel].pc = "unmade"

\* A tunnel process runs for a manager made after the dial of localhost.
C21_WitnessSpawned ==
    /\ sup[Tunnel].dial = "localhost"
    /\ SpawnedBy(Tunnel) > 0

\* C22: a call of TunnelManager.Start that finds no cloudflared returns an
\* error and spawns nothing, and a manager none of whose calls spawned tracks
\* no process.
C22_NoBinaryNoSpawn ==
    /\ \A k \in 1 .. Len(sup[Tunnel].log) :
          sup[Tunnel].log[k].probe = "no-binary" =>
              /\ sup[Tunnel].log[k].spawned = 0
              /\ sup[Tunnel].log[k].result = "error"
    /\ (\A k \in 1 .. Len(sup[Tunnel].log) : sup[Tunnel].log[k].spawned = 0) =>
          /\ sup[Tunnel].cmd = Nil
          /\ SpawnedBy(Tunnel) = 0
          /\ sup[Tunnel].pc \in {"unmade", "idle"}

\* Start has returned the error of the missing binary.
C22_Witness ==
    /\ Len(sup[Tunnel].log) > 0
    /\ LastCall(Tunnel).probe = "no-binary"
    /\ sup[Tunnel].ret = "start-error"
    /\ sup[Tunnel].cmd = Nil

\* C23: when TunnelManager.Start has returned an error after it spawned (the
\* timeout, the ready marker without a URL, the end of the output), the
\* process it spawned has been killed or had exited.
C23_KilledBeforeError ==
    (/\ sup[Tunnel].pc = "idle"
     /\ Len(sup[Tunnel].log) > 0
     /\ LastCall(Tunnel).spawned = 1
     /\ LastCall(Tunnel).result = "error") =>
        /\ sup[Tunnel].cmd \in ProcIds
        /\ sup[Tunnel].cmd \notin Alive(procs)

\* Start has returned the timeout error and its process, which ran, is on
\* its way out.
C23_Witness ==
    /\ sup[Tunnel].pc = "idle"
    /\ sup[Tunnel].ret = "start-error"
    /\ LastCall(Tunnel).probe = "timeout"
    /\ procs[sup[Tunnel].cmd].state = "dying"

\* The steps Start can take in its scan loop.
TunnelStartStep == TunnelScan(Tunnel) \/ TunnelEOF(Tunnel)

\* C24: once the 15 s timer has fired, TunnelManager.Start is not blocked: a
\* step of its own (which ends in the kill and the error, if no URL comes) is
\* open to it whatever the process does.
C24_ReturnsOnTimeout ==
    (sup[Tunnel].pc = "scanning" /\ sup[Tunnel].late) => ENABLED TunnelStartStep

\* C25: a call of TunnelManager.Start that read a ready marker before any URL
\* has returned successfully, and left the process alone.
C25_MarkerMeansReady ==
    \A k \in 1 .. Len(sup[Tunnel].log) :
        sup[Tunnel].log[k].probe = "marker" =>
            /\ sup[Tunnel].log[k].result = "ok"
            /\ (k = Len(sup[Tunnel].log) /\ sup[Tunnel].stops = 0) =>
                   procs[sup[Tunnel].cmd].state \in {"starting", "exited"}

\* C26: when Manager.Stop or TunnelManager.Stop has returned, the process the
\* supervisor tracks has exited, whether it went on the signal or ignored it.
C26_SameOutcome ==
    \A s \in GoManagers \cup {Tunnel} :
        (/\ sup[s].pc = "idle"
         /\ sup[s].ret = "stop-ok"
         /\ sup[s].cmd \in ProcIds) => procs[sup[s].cmd].state = "exited"

-----------------------------------------------------------------------------
(* The scan command *)

C27_WitnessFailure ==
    /\ run.pc = "returned"
    /\ run.outcome \in {"error", "empty"}
    /\ SpawnedBy(ScanManager) = 1
    /\ sup[ScanManager].stops = 2

\* C28: with --no-auto-start, runScan spawns no screenshot server.
C28_NoAutoStartNoSpawn ==
    run.autoStart => SpawnedBy(ScanManager) = 0

-----------------------------------------------------------------------------
(* The port search *)

C29_WitnessTrue ==
    /\ chk.state = "resolved"
    /\ chk.timer = "cleared"
    /\ chk.value

\* The ports findAvailablePort was asked to look at.
Asked == find.first .. (find.first + find.count - 1)

\* C30: the port findAvailablePort returns is one of the maxAttempts ports
\* from startPort on, no server answered on it and it could be bound; the
\* error is thrown when none of these ports can be bound, and only then.
C30_PortInRange ==
    /\ find.pc = "resolved" =>
          /\ find.result \in Asked
          /\ ~find.isRunning
          /\ Bindable(find.result)
    /\ find.pc = "thrown" => \A p \in Asked : ~Bindable(p)
    /\ (\A p \in Asked : ~Bindable(p)) => find.pc # "resolved"

\* The port returned was found by the recursive call, after a bind failed.
C30_Witness ==
    /\ find.pc = "resolved"
    /\ find.startPort > find.first
    /\ find.result > find.startPort
    /\ ports[find.first] = "other"

\* No port of three could be bound: the error.
C30_WitnessError ==
    /\ find.pc = "thrown"
    /\ find.count = MaxPorts

-----------------------------------------------------------------------------
(* Shutdown *)

\* C31: a server process that a Manager spawned and that ended on the signal
\* of Manager.Stop while it had a browser closed the browser before it went.
C31_BrowserClosedOnStop ==
    \A p \in ProcIds :
        (/\ procs[p].owner \in GoManagers
         /\ procs[p].end = "term"
         /\ procs[p].closed # "") => procs[p].closed = "closed"

\* C32: a step of a Manager leaves alone the service that was there before
\* and every process another supervisor spawned, and a step of a Manager that
\* tracks no process and spawns none (a Stop or Kill after Start found the
\* service reachable) changes no process at all.
C32_OnlyOwnProcess ==
    [][\A m \in GoManagers :
          sup'[m] # sup[m] =>
              /\ foreign' = foreign
              /\ \A p \in ProcIds :
                    procs[p].owner \notin {m, ""} => procs'[p] = procs[p]
              /\ (sup[m].cmd \in {Nil, Unstarted} /\ sup'[m].cmd = sup[m].cmd) =>
                    procs' = procs]_vars

\* Start found the service of somebody else, Stop and Kill were called and
\* the service is there as before.
C32_Witness ==
    \E m \in GoManagers :
        /\ foreign = "ok"
        /\ Len(sup[m].log) > 0
        /\ LastCall(m).probe = "200"
        /\ sup[m].cmd = Nil
        /\ sup[m].stops = 2
        /\ sup[m].ret = "kill-ok"

\* C33: a process of the launcher that had not exited when the 2 s timer of
\* killServer fired has been sent SIGKILL.
C33_ForceKillAfterGrace ==
    \A p \in ProcIds :
        (procs[p].owner = Launcher /\ procs[p].forced = "alive") =>
            procs[p].state \in {"dying", "exited"}

\* C34: when ensureServerRunning has spawned and then thrown the error of
\* the health check, the process it spawned does not run.
C34_NoOrphanOfLauncher ==
    (/\ sup[Launcher].pc = "idle"
     /\ sup[Launcher].ret = "start-error"
     /\ Len(sup[Launcher].log) > 0
     /\ LastCall(Launcher).spawned = 1
     /\ LastCall(Launcher).result = "error") => sup[Launcher].cmd \notin Alive(procs)

\* C35: from the return of a TunnelManager.Start that gave a URL until Stop
\* is called, the tunnel process runs, unless it ended of itself: nothing
\* has killed it.
C35_AliveUntilStop ==
    (/\ sup[Tunnel].pc = "idle"
     /\ sup[Tunnel].ret = "start-ok"
     /\ Len(sup[Tunnel].log) > 0
     /\ LastCall(Tunnel).result = "ok") =>
        \/ procs[sup[Tunnel].cmd].state = "starting"
        \/ procs[sup[Tunnel].cmd].end = "self"

\* C36: after a signal to the CLI, a server that runScan spawned and that
\* was killed had been sent the graceful signal first and was killed by the
\* Stop that had waited for it.
C36_GracefulOnSignal ==
    \A p \in ProcIds :
        (/\ run.cancelled
         /\ procs[p].owner = ScanManager
         /\ LastCall(ScanManager).result = "ok"
         /\ procs[p].state = "dying" \/ procs[p].end = "kill") =>
            /\ procs[p].termed
            /\ procs[p].forced = "alive"

\* C39: the second Stop of a run of runScan finds the process the first one
\* waited for exited: it sends no kill, its select can take the done case at
\* once, and it returns nil.
C39_SecondStopReturns ==
    sup[ScanManager].stops = 2 =>
        /\ sup[ScanManager].pc \in {"stopping", "idle"}
        /\ sup[ScanManager].cmd \in ProcIds =>
              procs[sup[ScanManager].cmd].state = "exited"
        /\ sup[ScanManager].pc = "stopping" => ENABLED StopDone(ScanManager)
        /\ sup[ScanManager].pc = "idle" => sup[ScanManager].ret = "stop-ok"

\* runScan has returned after two calls of Stop, the first of which killed
\* a process that ignored the signal.
C39_Witness ==
    /\ run.pc = "returned"
    /\ sup[ScanManager].stops = 2
    /\ sup[ScanManager].ret = "stop-ok"
    /\ sup[ScanManager].cmd \in ProcIds
    /\ procs[sup[ScanManager].cmd].forced = "alive"

-----------------------------------------------------------------------------
(* The capture service: start-up and answers *)

C38_AnsweredOnce ==
    /\ [][\A r \in Requests :
            /\ reqs[r].state = "open" => reqs'[r].state \in {"open", "responded"}
            /\ reqs[r].state = "responded" => reqs'[r] = reqs[r]]_vars
    /\ <>[](\A r \in Requests : reqs[r].state # "open")

\* Every request was a /scan and is answered, one of them of the default
\* viewports: there were more captures than slots, so that one had to wait.
\* One capture failed in a browser operation and one returned its image.
C38_Witness ==
    /\ \A r \in Requests : reqs[r].kind = "scan" /\ reqs[r].state = "responded"
    /\ \E r \in Requests : reqs[r].devices = DefaultDevices
    /\ Started > MAX_CONCURRENT_PAGES
    /\ \A c \in CapIds : caps[c].pc # "none" => Settled(caps[c]) /\ acquired[c] = 1
    /\ \E c \in CapIds : caps[c].pc = "rejected" /\ caps[c].err = BrowserError
    /\ \E c \in CapIds : caps[c].pc = "resolved"

====
